---- MODULE Spec2Model ----
(***************************************************************************)
(* FKS two-level perfect hashing, src/3_perfect_hashing_fks.cpp.           *)
(*                                                                         *)
(* State: the fields of class PerfectHashing (buckets, secondLevel,        *)
(* primarySize, a1, b1, p1), the position of the running insert call (pc,  *)
(* bucketIdx, attempts) and history variables recording what the caller    *)
(* has passed in and got back (calls, passed, okKeys, call, found).        *)
(*                                                                         *)
(* The modulus PRIME is 2147483647 in the source.  The model instantiates  *)
(* it with a small prime so that every parameter pair (a, b) can be drawn; *)
(* all arithmetic of the source is done in long long and never overflows,  *)
(* so the code is parametric in the prime.  The prime exceeds 9, the table *)
(* size of a bucket of three keys, as the source's prime exceeds every     *)
(* table size.  maxAttempts is scaled likewise.                            *)
(*                                                                         *)
(* randomizeHashFunction takes its modulus as long long& while the fields  *)
(* p1 and SecondaryTable::p are int; the model gives the call its evident  *)
(* meaning, the field receives prime.                                      *)
(*                                                                         *)
(* An index outside its vector (a negative remainder of a negative key) is *)
(* undefined behaviour: the model stops in pc = "undefined" and records no *)
(* further effect of the call.                                             *)
(***************************************************************************)
EXTENDS Integers, Sequences, FiniteSets, TLC

\* ---- program constants (scaled) and bounds of the model ----

\* const long long PRIME, line 32 (2147483647 in the source)
PRIME == 11
\* int maxAttempts, line 92 (100 in the source)
maxAttempts == 3
\* marker of an empty slot, lines 100 and 165
EMPTY == -1

\* number of insert calls of one run
MaxInserts == 3
\* largest bucket count passed to the constructor
MaxBuckets == 2
\* the level-1 pairs (a1, b1) the constructor draws in the runs explored: with
\* two buckets (2, 1) routes -PRIME to bucket 0, the keys 0, 1, PRIME to
\* bucket 1 and key -1 out of range
Level1 == {<<2, 1>>}
\* keys passed to insert and search: the empty marker, two small keys, and
\* the two keys next to 0 that are congruent to 0 modulo PRIME
Keys == {-PRIME, -1, 0, 1, PRIME}

VARIABLES buckets, secondLevel, primarySize, a1, b1, p1,
          pc, bucketIdx, attempts,
          calls, passed, okKeys, call, found

vars == <<buckets, secondLevel, primarySize, a1, b1, p1,
          pc, bucketIdx, attempts, calls, passed, okKeys, call, found>>

fields == <<primarySize, a1, b1, p1>>

\* ---- arithmetic of the source ----

\* operator % of C++ on a positive divisor: the sign of the dividend
CRem(x, m) == IF x >= 0 THEN x % m ELSE -((-x) % m)

\* int hashFunction(int key, int a, int b, long long p)
hashFunction(key, a, b, p) == CRem(a * key + b, p)

\* the parameter pairs randomizeHashFunction can produce for a prime
RandA(prime) == 1 .. (prime - 1)
RandB(prime) == 0 .. (prime - 1)

\* SecondaryTable(): size(0), a(0), b(0), p(0), empty vector
NewSecondaryTable == [table |-> <<>>, size |-> 0, a |-> 0, b |-> 0, p |-> 0]

\* slot of key in a table of tableSize slots (lines 60, 107, 139)
Slot(key, a, b, p, tableSize) == CRem(hashFunction(key, a, b, p), tableSize)

\* faulty variant: a collision check that never records the slots it has seen
CollisionFreeFromNoInsert(keys, i, hashed, a, b, p, tableSize) ==
    \A j \in i .. Len(keys) : Slot(keys[j], a, b, p, tableSize) \notin hashed

\* the loop of isCollisionFree over keys[i..], hashed = slots seen so far
RECURSIVE CollisionFreeFrom(_, _, _, _, _, _, _)
CollisionFreeFrom(keys, i, hashed, a, b, p, tableSize) ==
    IF i > Len(keys) THEN TRUE
    ELSE LET h == Slot(keys[i], a, b, p, tableSize)
         IN  IF h \in hashed THEN FALSE
             ELSE CollisionFreeFrom(keys, i + 1, hashed \cup {h}, a, b, p, tableSize)

\* faulty variant: a collision check that compares keys instead of slots
isCollisionFreeByKey(keys, a, b, p, tableSize) ==
    \A i, j \in 1 .. Len(keys) :
        (i # j /\ keys[i] # keys[j]) =>
            Slot(keys[i], a, b, p, tableSize) # Slot(keys[j], a, b, p, tableSize)

\* bool isCollisionFree(keys, a, b, p, tableSize)
isCollisionFree(keys, a, b, p, tableSize) ==
    CollisionFreeFrom(keys, 1, {}, a, b, p, tableSize)

\* every slot the placing loop writes is inside the vector
SlotsInRange(keys, a, b, p, tableSize) ==
    \A i \in 1 .. Len(keys) : Slot(keys[i], a, b, p, tableSize) \in 0 .. (tableSize - 1)

\* the placing loop over keys[i..] on table t (slot h is t[h + 1])
RECURSIVE PlaceFrom(_, _, _, _, _, _, _)
PlaceFrom(t, keys, i, a, b, p, tableSize) ==
    IF i > Len(keys) THEN t
    ELSE PlaceFrom([t EXCEPT ![Slot(keys[i], a, b, p, tableSize) + 1] = keys[i]],
                   keys, i + 1, a, b, p, tableSize)

\* faulty variant: a rebuild that places only the key just appended
PlaceKeysLastOnly(keys, a, b, p, tableSize) ==
    [h \in 1 .. tableSize |->
        IF h = Slot(keys[Len(keys)], a, b, p, tableSize) + 1
        THEN keys[Len(keys)] ELSE EMPTY]

\* table.assign(secondarySize, -1) followed by the placing loop
PlaceKeys(keys, a, b, p, tableSize) ==
    PlaceFrom([h \in 1 .. tableSize |-> EMPTY], keys, 1, a, b, p, tableSize)

\* int secondarySize = k * k
SecondarySize(k) == k * k

\* faulty variant: a one-slot table that is resized but never filled
BuildSingletonUnset(st, keys) ==
    [st EXCEPT !.table = <<0>>, !.size = 1, !.a = 1, !.b = 0, !.p = PRIME]

\* buildSecondaryTable, branch k == 1
BuildSingleton(st, keys) ==
    [st EXCEPT !.table = <<keys[1]>>, !.size = 1, !.a = 1, !.b = 0, !.p = PRIME]

\* buildSecondaryTable, the body of if (isCollisionFree(...)) for drawn a, b
InstallTable(st, keys, a, b) ==
    [st EXCEPT !.table = PlaceKeys(keys, a, b, PRIME, SecondarySize(Len(keys))),
               !.size = SecondarySize(Len(keys)), !.a = a, !.b = b, !.p = PRIME]

\* faulty variant: a failed attempt that throws the installed table away
RejectDrawDiscard(st) == [NewSecondaryTable EXCEPT !.p = PRIME]

\* buildSecondaryTable, an attempt whose pair collides: only
\* randomizeHashFunction has written, to the field p
RejectDraw(st) == [st EXCEPT !.p = PRIME]

\* ---- search ----

\* faulty variant: a bucket index computed without the offset b1
RouteNoOffset(key) == CRem(hashFunction(key, a1, 0, p1), primarySize)

\* faulty variant: a bucket index that sends every key to the first bucket
RouteFirstBucket(key) == 0

\* bucket index of a key (lines 122 and 132)
Route(key) == CRem(hashFunction(key, a1, b1, p1), primarySize)

\* search(key) indexes buckets and the slot array inside their ranges
searchInRange(sl, key) ==
    LET idx == Route(key)
    IN  /\ idx \in 0 .. (primarySize - 1)
        /\ sl[idx].size # 0 =>
             Slot(key, sl[idx].a, sl[idx].b, sl[idx].p, sl[idx].size)
                 \in 0 .. (sl[idx].size - 1)

\* faulty variant: a search that reports any occupied slot as a hit
searchInOccupancy(sl, key) ==
    LET secTable == sl[Route(key)]
    IN  IF secTable.size = 0 THEN FALSE
        ELSE secTable.table[Slot(key, secTable.a, secTable.b, secTable.p,
                                 secTable.size) + 1] # EMPTY

\* faulty variant: a search that answers from the bucket's key list
searchInList(sl, key) ==
    \E j \in 1 .. Len(buckets[Route(key)]) : buckets[Route(key)][j] = key

\* bool search(int key) on the given state of secondLevel, indexes in range
searchIn(sl, key) ==
    LET secTable == sl[Route(key)]
    IN  IF secTable.size = 0 THEN FALSE
        ELSE secTable.table[Slot(key, secTable.a, secTable.b, secTable.p,
                                 secTable.size) + 1] = key

search(key) == searchInRange(secondLevel, key) /\ searchIn(secondLevel, key)

\* ---- operations ----

\* history of the latest insert call: its key and bucket, the bucket's key
\* list when it was called, the pairs it drew, what it returned, and, until
\* the call installs a new table, the table installed when it was called;
\* retry: the call repeats the key of the call before it, which returned
\* false on a bucket of pairwise distinct keys
NoCall == [key |-> 0, idx |-> 0, keys0 |-> <<>>, st0 |-> NewSecondaryTable,
           draws |-> 0, sawFree |-> FALSE, retry |-> FALSE, at |-> "none",
           result |-> FALSE]

\* history of the latest search call
NoSearch == [at |-> "none", key |-> 0, result |-> FALSE]

NoDuplicates(keys) ==
    \A i, j \in 1 .. Len(keys) : i # j => keys[i] # keys[j]

\* PerfectHashing(int n): resize both vectors, draw the level-1 parameters
Init ==
    /\ primarySize \in 1 .. MaxBuckets
    /\ \E pr \in Level1 \cap (RandA(PRIME) \X RandB(PRIME)) :
         a1 = pr[1] /\ b1 = pr[2]
    /\ p1 = PRIME
    /\ buckets = [i \in 0 .. (primarySize - 1) |-> <<>>]
    /\ secondLevel = [i \in 0 .. (primarySize - 1) |-> NewSecondaryTable]
    /\ pc = "idle"
    /\ bucketIdx = 0
    /\ attempts = 0
    /\ calls = 0
    /\ passed = {}
    /\ okKeys = {}
    /\ call = NoCall
    /\ found = NoSearch

\* insert(key): route, push_back, then buildSecondaryTable up to its loop
Insert(key) ==
    /\ pc = "idle"
    /\ calls < MaxInserts
    /\ calls' = calls + 1
    /\ passed' = passed \cup {key}
    /\ found' = NoSearch
    /\ LET idx == Route(key)
       IN  IF idx \notin 0 .. (primarySize - 1)
           THEN /\ pc' = "undefined"
                /\ call' = [NoCall EXCEPT !.key = key, !.idx = idx, !.at = "undefined"]
                /\ UNCHANGED <<buckets, secondLevel, bucketIdx, attempts, okKeys>>
           ELSE LET keys == Append(buckets[idx], key)
                    base == [key |-> key, idx |-> idx, keys0 |-> buckets[idx],
                             st0 |-> secondLevel[idx], draws |-> 0,
                             sawFree |-> FALSE,
                             retry |-> /\ call.at = "returned" /\ ~call.result
                                       /\ call.key = key
                                       /\ NoDuplicates(buckets[idx]),
                             at |-> "running", result |-> FALSE]
                IN  /\ buckets' = [buckets EXCEPT ![idx] = keys]
                    /\ bucketIdx' = idx
                    /\ attempts' = 0
                    /\ IF Len(keys) = 1
                       THEN /\ secondLevel' = [secondLevel EXCEPT
                                                 ![idx] = BuildSingleton(@, keys)]
                            /\ pc' = "idle"
                            /\ okKeys' = okKeys \cup {key}
                            /\ call' = [base EXCEPT !.at = "returned", !.result = TRUE,
                                                   !.st0 = NewSecondaryTable]
                       ELSE /\ pc' = "build"
                            /\ call' = base
                            /\ UNCHANGED <<secondLevel, okKeys>>
    /\ UNCHANGED fields

\* faulty variant: a loop that runs one attempt too many
LoopContinuesOffByOne(n) == n <= maxAttempts

\* while (attempts < maxAttempts)
LoopContinues(n) == n < maxAttempts

\* one iteration of the loop of buildSecondaryTable: draw (a, b), test it,
\* install and return true, or count the attempt
Attempt ==
    /\ pc = "build"
    /\ LoopContinues(attempts)
    /\ \E a \in RandA(PRIME), b \in RandB(PRIME) :
         LET keys == buckets[bucketIdx]
             size == SecondarySize(Len(keys))
             free == isCollisionFree(keys, a, b, PRIME, size)
             drawn == [call EXCEPT !.draws = @ + 1, !.sawFree = @ \/ free]
         IN  IF free
             THEN IF SlotsInRange(keys, a, b, PRIME, size)
                  THEN /\ secondLevel' = [secondLevel EXCEPT
                                            ![bucketIdx] = InstallTable(@, keys, a, b)]
                       /\ pc' = "idle"
                       /\ okKeys' = okKeys \cup {call.key}
                       /\ call' = [drawn EXCEPT !.at = "returned", !.result = TRUE,
                                               !.st0 = NewSecondaryTable]
                       /\ UNCHANGED attempts
                  ELSE /\ pc' = "undefined"
                       /\ secondLevel' = [secondLevel EXCEPT ![bucketIdx] = RejectDraw(@)]
                       /\ call' = [drawn EXCEPT !.at = "undefined"]
                       /\ UNCHANGED <<attempts, okKeys>>
             ELSE /\ secondLevel' = [secondLevel EXCEPT ![bucketIdx] = RejectDraw(@)]
                  /\ attempts' = attempts + 1
                  /\ call' = drawn
                  /\ UNCHANGED <<pc, okKeys>>
    /\ UNCHANGED <<buckets, bucketIdx, calls, passed, found>>
    /\ UNCHANGED fields

\* faulty variant: a failing insert that takes the key back out of the bucket
GiveUpRollback ==
    /\ pc = "build"
    /\ ~LoopContinues(attempts)
    /\ pc' = "idle"
    /\ call' = [call EXCEPT !.at = "returned", !.result = FALSE]
    /\ buckets' = [buckets EXCEPT ![bucketIdx] = SubSeq(@, 1, Len(@) - 1)]
    /\ UNCHANGED <<secondLevel, bucketIdx, attempts, calls, passed, okKeys, found>>
    /\ UNCHANGED fields

\* the loop ends without a collision-free pair: return false (line 116)
GiveUp ==
    /\ pc = "build"
    /\ ~LoopContinues(attempts)
    /\ pc' = "idle"
    /\ call' = [call EXCEPT !.at = "returned", !.result = FALSE]
    /\ UNCHANGED <<buckets, secondLevel, bucketIdx, attempts, calls, passed, okKeys, found>>
    /\ UNCHANGED fields

\* faulty variant: a search that empties the slot of the key it finds
SearchConsuming(key) ==
    /\ pc = "idle"
    /\ IF searchInRange(secondLevel, key)
       THEN /\ found' = [at |-> "returned", key |-> key,
                         result |-> searchIn(secondLevel, key)]
            /\ pc' = "idle"
            /\ secondLevel' =
                 IF searchIn(secondLevel, key)
                 THEN [secondLevel EXCEPT ![Route(key)].table[
                          Slot(key, secondLevel[Route(key)].a, secondLevel[Route(key)].b,
                               secondLevel[Route(key)].p, secondLevel[Route(key)].size) + 1]
                              = EMPTY]
                 ELSE secondLevel
       ELSE /\ found' = [at |-> "undefined", key |-> key, result |-> FALSE]
            /\ pc' = "undefined"
            /\ UNCHANGED secondLevel
    /\ UNCHANGED <<buckets, bucketIdx, attempts, calls, passed, okKeys, call>>
    /\ UNCHANGED fields

\* search(key): reads only; the caller sees the result
Search(key) ==
    /\ pc = "idle"
    /\ IF searchInRange(secondLevel, key)
       THEN /\ found' = [at |-> "returned", key |-> key,
                         result |-> searchIn(secondLevel, key)]
            /\ pc' = "idle"
       ELSE /\ found' = [at |-> "undefined", key |-> key, result |-> FALSE]
            /\ pc' = "undefined"
    /\ UNCHANGED <<buckets, secondLevel, bucketIdx, attempts, calls, passed, okKeys, call>>
    /\ UNCHANGED fields

Next ==
    \/ \E key \in Keys : Insert(key)
    \/ Attempt
    \/ GiveUp
    \/ \E key \in Keys : Search(key)

Spec == Init /\ [][Next]_vars

\* ---- types ----

TypeOK ==
    /\ primarySize \in 1 .. MaxBuckets
    /\ pc \in {"idle", "build", "undefined"}
    /\ attempts \in 0 .. maxAttempts
    /\ calls \in 0 .. MaxInserts
    /\ passed \subseteq Keys
    /\ okKeys \subseteq passed

\* ---- helpers of the claims ----

Range(keys) == {keys[i] : i \in 1 .. Len(keys)}

\* the latest insert call has returned the given result
Returned(result) == call.at = "returned" /\ call.result = result

\* the bucket the latest insert call routed to now holds at least two keys
BuiltBucket == Len(call.keys0) >= 1

\* every insert call so far passed a non-negative key not passed before
DistinctNonNegative == calls = Cardinality(passed) /\ \A key \in passed : key >= 0

\* ---- C1 ----
\* C1: a key for which some insert call returned true is found by search in
\* every later state, whatever inserts followed, failing ones and ones into
\* the same bucket included.
C1_NoFalseNegatives == \A key \in okKeys : search(key)

\* a successfully inserted key is still found after a later insert of another
\* key into its bucket has failed
C1_Witness ==
    /\ Returned(FALSE)
    /\ \E key \in okKeys : key # call.key /\ Route(key) = call.idx /\ search(key)

\* ---- C2 ----
\* C2: search returns false for every key never passed to insert, the empty
\* marker -1 included.
C2_NoFalsePositives ==
    \A key \in Keys \ passed :
        searchInRange(secondLevel, key) => ~searchIn(secondLevel, key)

\* ---- C3 ----
\* C3: after a successful build of a bucket of k >= 2 keys the table has k*k
\* slots, the keys' slots under the installed (a, b, p) are pairwise distinct,
\* each key is stored at its slot and every other slot holds the empty marker.
C3_CollisionFree ==
    (Returned(TRUE) /\ BuiltBucket) =>
        LET keys == buckets[call.idx]
            k == Len(keys)
            st == secondLevel[call.idx]
            slot(i) == CRem(CRem(st.a * keys[i] + st.b, st.p), k * k)
        IN  /\ st.size = k * k
            /\ Len(st.table) = k * k
            /\ \A i, j \in 1 .. k : i # j => slot(i) # slot(j)
            /\ \A i \in 1 .. k : slot(i) \in 0 .. (k * k - 1) /\ st.table[slot(i) + 1] = keys[i]
            /\ \A h \in 0 .. (k * k - 1) :
                 (\A i \in 1 .. k : slot(i) # h) => st.table[h + 1] = EMPTY

\* a bucket of three keys has been built into nine slots, six of them empty
C3_Witness ==
    /\ Returned(TRUE)
    /\ Len(buckets[call.idx]) = 3
    /\ secondLevel[call.idx].size = 9
    /\ Cardinality({h \in 1 .. 9 : secondLevel[call.idx].table[h] = EMPTY}) = 6

\* ---- C4 ----
\* C4: between calls every bucket's table size is k*k for the k keys now in
\* the bucket's key list, after inserts that returned false as well.
C4_TableSize ==
    pc = "idle" =>
        \A i \in 0 .. (primarySize - 1) :
            secondLevel[i].size = Len(buckets[i]) * Len(buckets[i])

\* ---- C5 ----
\* C5: when insert returns false the bucket's installed table (slot array,
\* size, a, b, p) is the one installed when insert was called, and so is every
\* search answer for a key other than the inserted one.
C5_FailureKeepsTable ==
    Returned(FALSE) =>
        /\ secondLevel[call.idx] = call.st0
        /\ \A key \in Keys \ {call.key} :
             LET before == [secondLevel EXCEPT ![call.idx] = call.st0]
             IN  /\ searchInRange(secondLevel, key) = searchInRange(before, key)
                 /\ searchInRange(before, key) =>
                      searchIn(secondLevel, key) = searchIn(before, key)

\* an insert failed on a bucket that had a built table of four slots
C5_Witness ==
    /\ Returned(FALSE)
    /\ call.st0.size = 4
    /\ secondLevel[call.idx].size = 4

\* ---- C6 ----
\* C6: a build of k >= 2 keys draws at most maxAttempts pairs, never draws
\* after a collision-free pair, returns true exactly when a drawn pair was
\* collision-free (and installs such a pair), and returns false exactly after
\* maxAttempts colliding draws.
C6_BoundedRetry ==
    /\ call.draws <= maxAttempts
    /\ call.at = "running" => ~call.sawFree /\ call.draws = attempts
    /\ (call.at = "returned" /\ BuiltBucket) =>
         /\ call.result = call.sawFree
         /\ call.result =>
              LET st == secondLevel[call.idx]
              IN  \A i, j \in 1 .. Len(buckets[call.idx]) :
                    i # j => Slot(buckets[call.idx][i], st.a, st.b, st.p, st.size)
                               # Slot(buckets[call.idx][j], st.a, st.b, st.p, st.size)
         /\ ~call.result => call.draws = maxAttempts

\* a build of pairwise distinct keys gave up after maxAttempts colliding draws
C6_Witness ==
    /\ Returned(FALSE)
    /\ call.draws = maxAttempts
    /\ NoDuplicates(buckets[call.idx])

\* ---- C7 ----
\* C7 as stated: after inserting pairwise distinct non-negative keys into a
\* fresh table, search finds every inserted key, whatever the insert calls
\* returned, and no other non-negative key.
C7_AllInsertedFound ==
    (pc = "idle" /\ DistinctNonNegative) =>
        /\ \A key \in passed : search(key)
        /\ \A key \in Keys \ passed : key >= 0 => ~search(key)

\* C7 amended: after inserting pairwise distinct non-negative keys into a
\* fresh table, search finds every key whose insert call returned true and
\* no non-negative key that was not inserted.
C7_InsertedOkFound ==
    (pc = "idle" /\ DistinctNonNegative) =>
        /\ \A key \in okKeys : search(key)
        /\ \A key \in Keys \ passed : key >= 0 => ~search(key)

\* distinct non-negative keys inserted, some call returned true and some
\* call returned false, and a non-negative key was left out
C7_Witness ==
    /\ pc = "idle"
    /\ DistinctNonNegative
    /\ calls >= 2
    /\ okKeys # {}
    /\ passed \ okKeys # {}
    /\ \E key \in Keys \ passed : key >= 0 /\ ~search(key)

\* ---- C8 ----
\* C8: insert of a key already in its bucket's key list appends a second
\* entry, every drawn pair is rejected, and the call returns false.
C8_DuplicateRejected ==
    (call.at \in {"running", "returned"} /\ call.key \in Range(call.keys0)) =>
        /\ buckets[call.idx] = Append(call.keys0, call.key)
        /\ ~call.sawFree
        /\ call.at = "returned" => ~call.result /\ call.draws = maxAttempts

\* a duplicate insert has returned
C8_Witness ==
    /\ call.at = "returned"
    /\ call.key \in Range(call.keys0)
    /\ Len(buckets[call.idx]) = Len(call.keys0) + 1

\* ---- C9 ----
\* C9: when insert(key) is called again after it returned false on a bucket
\* of pairwise distinct keys, the retried call can return true: some pair
\* (a, b) it may draw is collision-free for the bucket.
C9_RetryCanSucceed ==
    (call.retry /\ call.at = "running") =>
        \E a \in RandA(PRIME), b \in RandB(PRIME) :
            isCollisionFree(buckets[call.idx], a, b, PRIME,
                            SecondarySize(Len(buckets[call.idx])))

\* ---- C10 ----
\* C10: when insert returns false the routed bucket's key list is the list
\* before the call with the key appended at the end.
C10_NoRollback ==
    Returned(FALSE) => buckets[call.idx] = Append(call.keys0, call.key)

\* an insert of a key new to its bucket has returned false
C10_Witness ==
    /\ Returned(FALSE)
    /\ call.key \notin Range(call.keys0)
    /\ Len(buckets[call.idx]) >= 2

\* ---- C11 ----
\* C11: no step changes the bucket count or the level-1 parameters; every key
\* in bucket i's key list satisfies ((a1*key + b1) % p1) % n = i, and no key
\* is in the key lists of two buckets.
C11_RoutingStable ==
    /\ [](\A i \in 0 .. (primarySize - 1) :
            /\ \A j \in 1 .. Len(buckets[i]) :
                 CRem(CRem(a1 * buckets[i][j] + b1, p1), primarySize) = i
            /\ \A i2 \in 0 .. (primarySize - 1) :
                 i2 # i => Range(buckets[i]) \cap Range(buckets[i2]) = {})
    /\ [][primarySize' = primarySize /\ a1' = a1 /\ b1' = b1 /\ p1' = p1]_vars

\* both buckets of a two-bucket table hold keys
C11_Witness ==
    /\ pc = "idle"
    /\ primarySize = 2
    /\ Len(buckets[0]) >= 1
    /\ Len(buckets[1]) >= 2

\* ---- C12 ----
\* C12: for every bucket of k >= 2 pairwise distinct keys that a build is
\* about to hash, fewer than half of the pairs (a, b) with a in 1 .. p-1 and
\* b in 0 .. p-1 make two keys share a slot of the k*k, so that a
\* collision-free pair exists.
C12_FewCollidingPairs ==
    (pc = "build" /\ NoDuplicates(buckets[bucketIdx])) =>
        LET keys == buckets[bucketIdx]
            pairs == RandA(PRIME) \X RandB(PRIME)
            colliding == {pr \in pairs :
                            ~isCollisionFree(keys, pr[1], pr[2], PRIME,
                                             SecondarySize(Len(keys)))}
        IN  2 * Cardinality(colliding) < Cardinality(pairs)

\* ---- C14 ----
\* C14: a search call (a step that records a search result) changes no
\* bucket key list, no secondary table and no hash parameter, and a search
\* of the same key right after it returns the same result.
C14_SearchReadOnly ==
    [][found'.at # "none" =>
         /\ buckets' = buckets
         /\ secondLevel' = secondLevel
         /\ primarySize' = primarySize /\ a1' = a1 /\ b1' = b1 /\ p1' = p1
         /\ (found.at = "returned" /\ found'.at = "returned" /\ found'.key = found.key)
              => found'.result = found.result]_vars

\* a search has found a key in a built table of four slots
C14_Witness ==
    /\ found.at = "returned"
    /\ found.result
    /\ secondLevel[Route(found.key)].size = 4

\* ---- C15 ----
\* C15: an insert into an empty bucket returns true without drawing a pair,
\* installs the one-slot table holding the key with size 1, a = 1, b = 0,
\* p = PRIME, and search of the key then returns true.
C15_Singleton ==
    (call.at \in {"running", "returned"} /\ call.keys0 = <<>>) =>
        /\ Returned(TRUE)
        /\ call.draws = 0
        /\ secondLevel[call.idx] =
             [table |-> <<call.key>>, size |-> 1, a |-> 1, b |-> 0, p |-> PRIME]
        /\ search(call.key)

\* the first key of the second bucket has been inserted and searched
C15_Witness ==
    /\ Returned(TRUE)
    /\ call.keys0 = <<>>
    /\ calls >= 2
    /\ found.at = "returned" /\ found.key = call.key /\ found.result

\* ---- C16 ----
\* C16: every step of an insert call, whether the call succeeds or fails,
\* leaves the key list and the secondary table of every bucket other than the
\* one its key routes to, and the level-1 parameters, unchanged.
C16_InsertFrame ==
    [][call' # call =>
         /\ primarySize' = primarySize /\ a1' = a1 /\ b1' = b1 /\ p1' = p1
         /\ \A i \in 0 .. (primarySize - 1) :
              i # CRem(CRem(a1 * call'.key + b1, p1), primarySize) =>
                  /\ buckets'[i] = buckets[i]
                  /\ secondLevel'[i] = secondLevel[i]]_vars

\* a second key has been built into one bucket while the other bucket holds
\* a key of its own
C16_Witness ==
    /\ pc = "idle"
    /\ primarySize = 2
    /\ Returned(TRUE)
    /\ Len(buckets[call.idx]) >= 2
    /\ Len(buckets[1 - call.idx]) >= 1

\* ---- C17 ----
\* two entries of a key list that are equal or congruent modulo the prime
CongruentPair(keys) ==
    \E i, j \in 1 .. Len(keys) :
        i # j /\ (keys[i] - keys[j]) % PRIME = 0

\* C17: an insert routed to a bucket whose key list already holds two equal
\* keys or two keys congruent modulo p returns false and leaves the bucket's
\* installed table as it was.
C17_PermanentFailure ==
    (call.at = "returned" /\ CongruentPair(call.keys0)) =>
        /\ ~call.result
        /\ secondLevel[call.idx] = call.st0

\* ---- C18 ----
\* the number of leading entries of bucket i's key list that its installed
\* table was built from
Built(i) ==
    CHOOSE k \in 0 .. Len(buckets[i]) : k * k = secondLevel[i].size

\* C18 as stated, first part: after an insert of a key other than the empty
\* marker returned false, search reports that key absent.
C18_FailedKeyAbsent ==
    (Returned(FALSE) /\ call.key # EMPTY) => ~search(call.key)

\* C18, amended: between calls, a key other than the empty marker that only
\* inserts returning false have appended to a bucket since its table was
\* installed, and that the table was not built from, is not found by search;
\* right after an insert returns true, search finds every key of that bucket's
\* list; a call that returned false has left its key behind the built prefix.
C18_HalfInserted ==
    pc = "idle" =>
        /\ \A i \in 0 .. (primarySize - 1) :
             \A j \in (Built(i) + 1) .. Len(buckets[i]) :
                 LET key == buckets[i][j]
                 IN  (/\ key # EMPTY
                      /\ \A h \in 1 .. Built(i) : buckets[i][h] # key
                      /\ searchInRange(secondLevel, key))
                         => ~searchIn(secondLevel, key)
        /\ Returned(TRUE) =>
             \A j \in 1 .. Len(buckets[call.idx]) : search(buckets[call.idx][j])
        /\ Returned(FALSE) => Built(call.idx) < Len(buckets[call.idx])

\* search has found a key that no insert returning true was called with
C18_Witness ==
    /\ found.at = "returned"
    /\ found.result
    /\ found.key \notin okKeys
    /\ found.key # EMPTY
    /\ Returned(TRUE)
    /\ \E j \in 1 .. Len(buckets[call.idx]) : buckets[call.idx][j] = found.key

\* ---- C19 ----
\* C19: for every key, the bucket index of insert and search is in [0, n) and
\* the slot of buildSecondaryTable and search is in [0, size), so no call
\* indexes a vector out of range.
C19_IndexInBounds ==
    /\ call.at # "undefined"
    /\ found.at # "undefined"

====
